---- MODULE Spec2Model ----
(***************************************************************************)
(* Red-black trees of algorithms3050: the plain tree (redblack-1.py), the  *)
(* subtree-count tree (redblack-count-aug-1.py), the subtree-height tree   *)
(* (redblack-depth-aug-2.py), the per-node depth tree                      *)
(* (redblack-depth-aug-1.py) and the interval tree (redblack-interval.py). *)
(*                                                                         *)
(* Objects live in a heap: node 0 is the tree's NIL_LEAF, nodes 1..n are   *)
(* the nodes made by insert, in the order they were made.  Python's None   *)
(* is the reference None.  An attribute a variant's Node class does not    *)
(* have holds None.  insert is modelled statement group by statement       *)
(* group: pc is the position inside the running insert ("idle" when no     *)
(* call is running).                                                       *)
(***************************************************************************)
EXTENDS Integers, Sequences, FiniteSets, TLC

\* ---------------------------------------------------------------- bounds
MaxNodes == 5      \* inserts per run when the inputs are drawn freely
MaxIntervals == 3  \* the same for the interval tree (its inputs are pairs)
MaxKey == 3        \* keys are drawn from 1..MaxKey
MaxLow == 2        \* low endpoints are drawn from 1..MaxLow

\* ------------------------------------------------------------- constants
None == -1         \* Python None, as a reference
NIL_LEAF == 0      \* the heap address of self.NIL_LEAF
NegInf == -1000    \* float('-inf'): below every endpoint used

Variants == {"plain", "count", "height", "depth", "interval"}

Keys == 1 .. MaxKey
\* intervals passed to insert: one unit to either side of the low endpoint, so
\* that both low <= high and high < low occur
Intervals == UNION {{<<l, l - 1>>, <<l, l + 1>>} : l \in 1 .. MaxLow}
\* intervals passed to overlap_search
Queries == {q \in (0 .. MaxLow + 2) \X (0 .. MaxLow + 2) : q[1] <= q[2]}

\* The literal lists the sources feed to insert.
elements_plain ==
  <<20, 15, 25, 10, 5, 1, 17, 22, 27, 8, 99, 101, 7, 2, 33, 34, 35, 1, 103,
    77, 78, 79>>
elements_count ==
  <<400, 20, 15, 25, 10, 5, 1, 17, 22, 27, 8, 99, 101, 7, 2, 33, 34, 35, 103,
    77, 78, 79>>
elements_depth ==
  <<20, 15, 25, 10, 5, 1, 17, 22, 27, 8, 99, 101, 7, 2, 33, 34, 35, 103, 77,
    78, 79>>
intervals_main ==
  << <<4, 5>>, <<24, 29>>, <<48, 58>>, <<6, 12>>, <<43, 45>>, <<38, 43>>,
     <<5, 7>>, <<41, 43>>, <<66, 73>>, <<47, 53>>, <<64, 67>>, <<72, 81>>,
     <<11, 12>>, <<85, 89>>, <<83, 90>>, <<30, 35>>, <<17, 27>>, <<53, 57>>,
     <<51, 59>>, <<81, 89>>, <<40, 49>>, <<85, 94>>, <<58, 62>>, <<25, 32>>,
     <<37, 45>>, <<85, 94>>, <<11, 21>>, <<54, 60>> >>
intervals_doc ==
  << <<15, 20>>, <<10, 30>>, <<17, 19>>, <<5, 20>>, <<12, 15>>, <<30, 40>> >>
queries_doc == { <<14, 16>>, <<41, 42>> }
\* further queries put to the trees built from the literal lists
queries_probe == {q \in {10 * i : i \in 0 .. 10} \X {10 * i : i \in 0 .. 10} :
                    q[1] <= q[2]}

VARIABLES variant, driver, script, heap, root, pc, new_node, current, parent,
          node, depth, result

vars == <<variant, driver, script, heap, root, pc, new_node, current, parent,
          node, depth, result>>

\* number of nodes made by insert so far
n == Cardinality(DOMAIN heap) - 1

Max2(a, b) == IF a >= b THEN a ELSE b

\* ------------------------------------------------------------ the objects
\* Node(...) as each variant's __init__ leaves it, for the sentinel.
NilNode(v) ==
  [data |-> IF v = "interval" THEN NegInf ELSE None,
   high |-> IF v = "interval" THEN NegInf ELSE None,
   color |-> "BLACK",
   left |-> IF v \in {"plain", "depth"} THEN None ELSE NIL_LEAF,
   right |-> IF v \in {"plain", "depth"} THEN None ELSE NIL_LEAF,
   parent |-> None,
   subtree_count |-> IF v = "count" THEN 0 ELSE None,
   subtree_depth |-> IF v = "height" THEN -1 ELSE None,
   max_endpoint |-> IF v = "interval" THEN NegInf ELSE None,
   depth |-> IF v = "depth" THEN 0 ELSE None]

\* the node insert makes for an input d = <<data, high>>
NewNode(v, d) ==
  [data |-> d[1],
   high |-> d[2],
   color |-> "RED",
   left |-> NIL_LEAF,
   right |-> NIL_LEAF,
   parent |-> None,
   subtree_count |-> IF v = "count" THEN 1 ELSE None,
   subtree_depth |-> IF v = "height" THEN 0 ELSE None,
   max_endpoint |-> IF v = "interval" THEN d[2] ELSE None,
   depth |-> IF v = "depth" THEN 0 ELSE None]

\* ----------------------------------------------------------- augmentation
\* update_subtree_count that leaves the node itself out of the count
update_subtree_count_no_self(h, x) ==
  IF x = NIL_LEAF THEN h
  ELSE [h EXCEPT ![x].subtree_count =
          h[h[x].left].subtree_count + h[h[x].right].subtree_count]

update_subtree_count(h, x) ==
  IF x = NIL_LEAF THEN h
  ELSE [h EXCEPT ![x].subtree_count =
          1 + h[h[x].left].subtree_count + h[h[x].right].subtree_count]

update_subtree_depth(h, x) ==
  IF x = NIL_LEAF THEN h
  ELSE [h EXCEPT ![x].subtree_depth =
          1 + Max2(h[h[x].left].subtree_depth, h[h[x].right].subtree_depth)]

\* update_max_endpoint that leaves the right child out of the maximum
update_max_endpoint_no_right(h, x) ==
  IF x = NIL_LEAF THEN h
  ELSE [h EXCEPT ![x].max_endpoint =
          Max2(h[x].high, h[h[x].left].max_endpoint)]

update_max_endpoint(h, x) ==
  IF x = NIL_LEAF THEN h
  ELSE [h EXCEPT ![x].max_endpoint =
          Max2(h[x].high,
               Max2(h[h[x].left].max_endpoint, h[h[x].right].max_endpoint))]

\* the variant's update_* call on one node
update_aug(v, h, x) ==
  CASE v = "count" -> update_subtree_count(h, x)
    [] v = "height" -> update_subtree_depth(h, x)
    [] v = "interval" -> update_max_endpoint(h, x)
    [] OTHER -> h

\* after_rotation that refreshes only the node that moved up
after_rotation_up_only(v, h, low, up) ==
  IF v = "depth"
  THEN [h EXCEPT ![up].depth = h[low].depth, ![low].depth = h[low].depth + 1]
  ELSE update_aug(v, h, up)

\* what each variant's rotation does after relinking: low is the node that
\* moved down, up its former child
after_rotation(v, h, low, up) ==
  IF v = "depth"
  THEN [h EXCEPT ![up].depth = h[low].depth, ![low].depth = h[low].depth + 1]
  ELSE update_aug(v, update_aug(v, h, low), up)

\* -------------------------------------------------------------- rotations
\* rotate_left without the test "right_child.left != self.NIL_LEAF"
rotate_left_unguarded(v, h, r, x) ==
  LET right_child == h[x].right
      h1 == [h EXCEPT ![x].right = h[right_child].left]
      h2 == [h1 EXCEPT ![h1[right_child].left].parent = x]
      h3 == [h2 EXCEPT ![right_child].parent = h2[x].parent]
      r4 == IF h3[x].parent = None THEN right_child ELSE r
      h4 == IF h3[x].parent = None THEN h3
            ELSE IF x = h3[h3[x].parent].left
                 THEN [h3 EXCEPT ![h3[x].parent].left = right_child]
                 ELSE [h3 EXCEPT ![h3[x].parent].right = right_child]
      h5 == [h4 EXCEPT ![right_child].left = x]
      h6 == [h5 EXCEPT ![x].parent = right_child]
  IN  [heap |-> after_rotation(v, h6, x, right_child), root |-> r4]

rotate_left(v, h, r, x) ==
  LET right_child == h[x].right
      h1 == [h EXCEPT ![x].right = h[right_child].left]
      h2 == IF h1[right_child].left # NIL_LEAF
            THEN [h1 EXCEPT ![h1[right_child].left].parent = x]
            ELSE h1
      h3 == [h2 EXCEPT ![right_child].parent = h2[x].parent]
      r4 == IF h3[x].parent = None THEN right_child ELSE r
      h4 == IF h3[x].parent = None THEN h3
            ELSE IF x = h3[h3[x].parent].left
                 THEN [h3 EXCEPT ![h3[x].parent].left = right_child]
                 ELSE [h3 EXCEPT ![h3[x].parent].right = right_child]
      h5 == [h4 EXCEPT ![right_child].left = x]
      h6 == [h5 EXCEPT ![x].parent = right_child]
  IN  [heap |-> after_rotation(v, h6, x, right_child), root |-> r4]

\* rotate_right without left_child.right.parent = node
rotate_right_grandchild_parent_kept(v, h, r, x) ==
  LET left_child == h[x].left
      h1 == [h EXCEPT ![x].left = h[left_child].right]
      h2 == h1
      h3 == [h2 EXCEPT ![left_child].parent = h2[x].parent]
      r4 == IF h3[x].parent = None THEN left_child ELSE r
      h4 == IF h3[x].parent = None THEN h3
            ELSE IF x = h3[h3[x].parent].right
                 THEN [h3 EXCEPT ![h3[x].parent].right = left_child]
                 ELSE [h3 EXCEPT ![h3[x].parent].left = left_child]
      h5 == [h4 EXCEPT ![left_child].right = x]
      h6 == [h5 EXCEPT ![x].parent = left_child]
  IN  [heap |-> after_rotation(v, h6, x, left_child), root |-> r4]

\* rotate_right that hands over the pivot's left child: node.left =
\* left_child.left
rotate_right_outer_grandchild(v, h, r, x) ==
  LET left_child == h[x].left
      h1 == [h EXCEPT ![x].left = h[left_child].left]
      h2 == IF h1[left_child].right # NIL_LEAF
            THEN [h1 EXCEPT ![h1[left_child].right].parent = x]
            ELSE h1
      h3 == [h2 EXCEPT ![left_child].parent = h2[x].parent]
      r4 == IF h3[x].parent = None THEN left_child ELSE r
      h4 == IF h3[x].parent = None THEN h3
            ELSE IF x = h3[h3[x].parent].right
                 THEN [h3 EXCEPT ![h3[x].parent].right = left_child]
                 ELSE [h3 EXCEPT ![h3[x].parent].left = left_child]
      h5 == [h4 EXCEPT ![left_child].right = x]
      h6 == [h5 EXCEPT ![x].parent = left_child]
  IN  [heap |-> after_rotation(v, h6, x, left_child), root |-> r4]

rotate_right(v, h, r, x) ==
  LET left_child == h[x].left
      h1 == [h EXCEPT ![x].left = h[left_child].right]
      h2 == IF h1[left_child].right # NIL_LEAF
            THEN [h1 EXCEPT ![h1[left_child].right].parent = x]
            ELSE h1
      h3 == [h2 EXCEPT ![left_child].parent = h2[x].parent]
      r4 == IF h3[x].parent = None THEN left_child ELSE r
      h4 == IF h3[x].parent = None THEN h3
            ELSE IF x = h3[h3[x].parent].right
                 THEN [h3 EXCEPT ![h3[x].parent].right = left_child]
                 ELSE [h3 EXCEPT ![h3[x].parent].left = left_child]
      h5 == [h4 EXCEPT ![left_child].right = x]
      h6 == [h5 EXCEPT ![x].parent = left_child]
  IN  [heap |-> after_rotation(v, h6, x, left_child), root |-> r4]

\* --------------------------------------------------------- initial states
ScriptOf(v, d) ==
  CASE d = "free" -> << >>
    [] d = "doc" -> intervals_doc
    [] v = "plain" -> [i \in 1 .. Len(elements_plain) |->
                         <<elements_plain[i], None>>]
    [] v = "count" -> [i \in 1 .. Len(elements_count) |->
                         <<elements_count[i], None>>]
    [] v = "interval" -> intervals_main
    [] OTHER -> [i \in 1 .. Len(elements_depth) |->
                   <<elements_depth[i], None>>]

Init ==
  /\ variant \in Variants
  /\ driver \in {"free", "main"} \cup (IF variant = "interval" THEN {"doc"} ELSE {})
  /\ script = ScriptOf(variant, driver)
  /\ heap = [x \in {NIL_LEAF} |-> NilNode(variant)]
  /\ root = NIL_LEAF
  /\ pc = "idle"
  /\ new_node = None
  /\ current = None
  /\ parent = None
  /\ node = None
  /\ depth = None
  /\ result = [op |-> "none", arg |-> << >>, value |-> << >>]

\* ----------------------------------------------------------------- insert
\* the values the caller may pass to the next insert
NextInputs ==
  IF driver = "free"
  THEN IF variant = "interval"
       THEN IF n < MaxIntervals THEN Intervals ELSE {}
       ELSE IF n < MaxNodes THEN {<<k, None>> : k \in Keys} ELSE {}
  ELSE IF script # << >> THEN {Head(script)} ELSE {}

\* result holds what the last read returned (or printed) since the last insert
NoResult == [op |-> "none", arg |-> << >>, value |-> << >>]

\* insert: new_node = Node(data); parent = None; current = self.root
InsertBegin(d) ==
  /\ pc = "idle"
  /\ d \in NextInputs
  /\ heap' = [x \in 0 .. n + 1 |->
                IF x = n + 1 THEN NewNode(variant, d) ELSE heap[x]]
  /\ new_node' = n + 1
  /\ parent' = None
  /\ current' = root
  /\ depth' = IF variant = "depth" THEN 0 ELSE None
  /\ script' = IF driver = "free" THEN script ELSE Tail(script)
  /\ result' = NoResult
  /\ pc' = "descend"
  /\ UNCHANGED <<variant, driver, root, node>>

\* InsertDescend that does not move to the right child
InsertDescendStuck ==
  /\ pc = "descend"
  /\ current # NIL_LEAF
  /\ parent' = current
  /\ depth' = depth
  /\ current' = IF heap[new_node].data < heap[current].data
                THEN heap[current].left
                ELSE current
  /\ UNCHANGED <<variant, driver, script, heap, root, pc, new_node, node,
                 result>>

\* one iteration of: while current != self.NIL_LEAF
InsertDescend ==
  /\ pc = "descend"
  /\ current # NIL_LEAF
  /\ parent' = current
  /\ depth' = IF variant = "depth" THEN depth + 1 ELSE depth
  /\ current' = IF heap[new_node].data < heap[current].data
                THEN heap[current].left
                ELSE heap[current].right
  /\ UNCHANGED <<variant, driver, script, heap, root, pc, new_node, node,
                 result>>

\* InsertLink with the comparison against parent.data turned round
InsertLinkFlipped ==
  /\ pc = "descend"
  /\ current = NIL_LEAF
  /\ LET h1 == [heap EXCEPT ![new_node].parent = parent]
         h2 == IF variant = "depth"
               THEN [h1 EXCEPT ![new_node].depth = depth]
               ELSE h1
         h3 == IF parent = None THEN h2
               ELSE IF h2[new_node].data > h2[parent].data
                    THEN [h2 EXCEPT ![parent].left = new_node]
                    ELSE [h2 EXCEPT ![parent].right = new_node]
     IN  /\ heap' = [h3 EXCEPT ![new_node].color = "RED"]
         /\ root' = IF parent = None THEN new_node ELSE root
  /\ node' = new_node
  /\ pc' = "fix"
  /\ UNCHANGED <<variant, driver, script, new_node, current, parent, depth,
                 result>>

\* the loop has ended: link new_node under parent, colour it, call fix_insert
InsertLink ==
  /\ pc = "descend"
  /\ current = NIL_LEAF
  /\ LET h1 == [heap EXCEPT ![new_node].parent = parent]
         h2 == IF variant = "depth"
               THEN [h1 EXCEPT ![new_node].depth = depth]
               ELSE h1
         h3 == IF parent = None THEN h2
               ELSE IF h2[new_node].data < h2[parent].data
                    THEN [h2 EXCEPT ![parent].left = new_node]
                    ELSE [h2 EXCEPT ![parent].right = new_node]
     IN  /\ heap' = [h3 EXCEPT ![new_node].color = "RED"]
         /\ root' = IF parent = None THEN new_node ELSE root
  /\ node' = new_node
  /\ pc' = "fix"
  /\ UNCHANGED <<variant, driver, script, new_node, current, parent, depth,
                 result>>

\* ------------------------------------------------------------- fix_insert
\* the loop test that never enters the loop
LoopCondNever == FALSE

\* while node != self.root and node.parent.color == 'RED'
LoopCond == node # root /\ heap[heap[node].parent].color = "RED"

P(x) == heap[x].parent
G(x) == heap[heap[x].parent].parent

\* if node.parent == node.parent.parent.left
ParentIsLeft == P(node) = heap[G(node)].left

Uncle == IF ParentIsLeft THEN heap[G(node)].right ELSE heap[G(node)].left

\* the uncle test always taking the black-uncle branch
UncleNeverRed == FALSE

\* if uncle.color == 'RED'
UncleIsRed == heap[Uncle].color = "RED"

\* FixRedUncle without node.parent.parent.color = 'RED'
FixRedUncleGrandparentKept ==
  /\ pc = "fix"
  /\ LoopCond
  /\ UncleIsRed
  /\ heap' = [heap EXCEPT ![P(node)].color = "BLACK",
                          ![Uncle].color = "BLACK"]
  /\ node' = G(node)
  /\ UNCHANGED <<variant, driver, script, root, pc, new_node, current, parent,
                 depth, result>>

\* uncle.color == 'RED': recolour and climb to the grandparent
FixRedUncle ==
  /\ pc = "fix"
  /\ LoopCond
  /\ UncleIsRed
  /\ heap' = [heap EXCEPT ![P(node)].color = "BLACK",
                          ![Uncle].color = "BLACK",
                          ![G(node)].color = "RED"]
  /\ node' = G(node)
  /\ UNCHANGED <<variant, driver, script, root, pc, new_node, current, parent,
                 depth, result>>

\* black uncle, node is the inner child: node = node.parent; rotate at node
FixInnerRotate ==
  /\ pc = "fix"
  /\ LoopCond
  /\ ~UncleIsRed
  /\ IF ParentIsLeft
     THEN /\ node = heap[P(node)].right
          /\ LET t == rotate_left(variant, heap, root, P(node))
             IN  heap' = t.heap /\ root' = t.root
          /\ pc' = "outer_l"
     ELSE /\ node = heap[P(node)].left
          /\ LET t == rotate_right(variant, heap, root, P(node))
             IN  heap' = t.heap /\ root' = t.root
          /\ pc' = "outer_r"
  /\ node' = P(node)
  /\ UNCHANGED <<variant, driver, script, new_node, current, parent, depth,
                 result>>

\* FixOuterRotate without node.parent.color = 'BLACK'
FixOuterRotateParentRed ==
  /\ \/ pc \in {"outer_l", "outer_r"}
     \/ /\ pc = "fix"
        /\ LoopCond
        /\ ~UncleIsRed
        /\ IF ParentIsLeft THEN node # heap[P(node)].right
                           ELSE node # heap[P(node)].left
  /\ LET leftSide == IF pc = "fix" THEN ParentIsLeft ELSE pc = "outer_l"
         h1 == heap
         h2 == [h1 EXCEPT ![h1[h1[node].parent].parent].color = "RED"]
         g == h2[h2[node].parent].parent
         t == IF leftSide THEN rotate_right(variant, h2, root, g)
                          ELSE rotate_left(variant, h2, root, g)
     IN  heap' = t.heap /\ root' = t.root
  /\ pc' = "fix"
  /\ UNCHANGED <<variant, driver, script, new_node, current, parent, node,
                 depth, result>>

\* black uncle, outer shape (directly or after the inner rotation):
\* parent BLACK, grandparent RED, rotate at the grandparent
FixOuterRotate ==
  /\ \/ pc \in {"outer_l", "outer_r"}
     \/ /\ pc = "fix"
        /\ LoopCond
        /\ ~UncleIsRed
        /\ IF ParentIsLeft THEN node # heap[P(node)].right
                           ELSE node # heap[P(node)].left
  /\ LET leftSide == IF pc = "fix" THEN ParentIsLeft ELSE pc = "outer_l"
         h1 == [heap EXCEPT ![P(node)].color = "BLACK"]
         h2 == [h1 EXCEPT ![h1[h1[node].parent].parent].color = "RED"]
         g == h2[h2[node].parent].parent
         t == IF leftSide THEN rotate_right(variant, h2, root, g)
                          ELSE rotate_left(variant, h2, root, g)
     IN  heap' = t.heap /\ root' = t.root
  /\ pc' = "fix"
  /\ UNCHANGED <<variant, driver, script, new_node, current, parent, node,
                 depth, result>>

\* FixReturn without the final self.root.color = 'BLACK'
FixReturnRootUnpainted ==
  /\ pc = "fix"
  /\ ~LoopCond
  /\ heap' = heap
  /\ IF variant \in {"count", "height", "interval"}
     THEN /\ pc' = "walk"
          /\ node' = new_node
          /\ UNCHANGED <<new_node, current, parent, depth>>
     ELSE /\ pc' = "idle"
          /\ node' = None
          /\ new_node' = None
          /\ current' = None
          /\ parent' = None
          /\ depth' = None
  /\ UNCHANGED <<variant, driver, script, root, result>>

\* the loop has ended: self.root.color = 'BLACK'; fix_insert returns, and insert
\* goes on to update_*_upwards(new_node) in the variants that have it
FixReturn ==
  /\ pc = "fix"
  /\ ~LoopCond
  /\ heap' = [heap EXCEPT ![root].color = "BLACK"]
  /\ IF variant \in {"count", "height", "interval"}
     THEN /\ pc' = "walk"
          /\ node' = new_node
          /\ UNCHANGED <<new_node, current, parent, depth>>
     ELSE /\ pc' = "idle"
          /\ node' = None
          /\ new_node' = None
          /\ current' = None
          /\ parent' = None
          /\ depth' = None
  /\ UNCHANGED <<variant, driver, script, root, result>>

\* UpwardStep that stops at the first node whose value did not change
UpwardStepStopsEarly ==
  /\ pc = "walk"
  /\ node # NIL_LEAF
  /\ heap' = update_aug(variant, heap, node)
  /\ IF heap[node].parent = None \/ update_aug(variant, heap, node) = heap
     THEN /\ pc' = "idle"
          /\ node' = None
          /\ new_node' = None
          /\ current' = None
          /\ parent' = None
     ELSE /\ node' = heap[node].parent
          /\ UNCHANGED <<pc, new_node, current, parent>>
  /\ UNCHANGED <<variant, driver, script, root, depth, result>>

\* one iteration of update_*_upwards: while node != self.NIL_LEAF
UpwardStep ==
  /\ pc = "walk"
  /\ node # NIL_LEAF
  /\ heap' = update_aug(variant, heap, node)
  /\ IF heap[node].parent = None
     THEN /\ pc' = "idle"
          /\ node' = None
          /\ new_node' = None
          /\ current' = None
          /\ parent' = None
     ELSE /\ node' = heap[node].parent
          /\ UNCHANGED <<pc, new_node, current, parent>>
  /\ UNCHANGED <<variant, driver, script, root, depth, result>>

Insert ==
  \/ \E d \in NextInputs : InsertBegin(d)
  \/ InsertDescend
  \/ InsertLink
  \/ FixRedUncle
  \/ FixInnerRotate
  \/ FixOuterRotate
  \/ FixReturn
  \/ UpwardStep

\* ------------------------------------------------------------------ reads
\* _do_overlap(interval1, interval2)
_do_overlap(i1, i2) == i1[1] <= i2[2] /\ i2[1] <= i1[2]

\* _overlap_search that goes left only when the left max_endpoint is strictly
\* above the query's low endpoint
RECURSIVE _overlap_search_strict(_, _, _)
_overlap_search_strict(h, x, q) ==
  IF x = NIL_LEAF THEN << >>
  ELSE IF _do_overlap(<<h[x].data, h[x].high>>, q)
       THEN << <<h[x].data, h[x].high>> >>
       ELSE IF h[x].left # NIL_LEAF /\ h[h[x].left].max_endpoint > q[1]
            THEN _overlap_search_strict(h, h[x].left, q)
            ELSE _overlap_search_strict(h, h[x].right, q)

\* _overlap_search(node, interval): << >> is None, <<i>> the interval i
RECURSIVE _overlap_search(_, _, _)
_overlap_search(h, x, q) ==
  IF x = NIL_LEAF THEN << >>
  ELSE IF _do_overlap(<<h[x].data, h[x].high>>, q)
       THEN << <<h[x].data, h[x].high>> >>
       ELSE IF h[x].left # NIL_LEAF /\ h[h[x].left].max_endpoint >= q[1]
            THEN _overlap_search(h, h[x].left, q)
            ELSE _overlap_search(h, h[x].right, q)

overlap_search(q) == _overlap_search(heap, root, q)

\* what inorder_traversal prints for one node
Printed(v, h, x) ==
  CASE v = "plain" -> <<h[x].data, h[x].color>>
    [] v = "count" -> <<h[x].data, h[x].color, h[x].subtree_count>>
    [] v = "height" -> <<h[x].data, h[x].color, h[x].subtree_depth>>
    [] v = "depth" -> <<h[x].data, h[x].color, h[x].depth>>
    [] OTHER -> <<h[x].data, h[x].high, h[x].max_endpoint>>

\* inorder_traversal(node): the sequence of items printed
RECURSIVE inorder_traversal(_, _, _)
inorder_traversal(v, h, x) ==
  IF x # NIL_LEAF
  THEN inorder_traversal(v, h, h[x].left) \o <<Printed(v, h, x)>>
         \o inorder_traversal(v, h, h[x].right)
  ELSE << >>

\* the queries the caller may pass to overlap_search
NextQueries ==
  IF variant # "interval" THEN {}
  ELSE CASE driver = "free" -> Queries
         [] OTHER -> queries_doc \cup queries_probe

OverlapSearch(q) ==
  /\ pc = "idle"
  /\ q \in NextQueries
  /\ result' = [op |-> "overlap_search", arg |-> q, value |-> overlap_search(q)]
  /\ UNCHANGED <<variant, driver, script, heap, root, pc, new_node, current,
                 parent, node, depth>>

\* InorderTraversal that walks with self.root as its cursor and leaves it at
\* the sentinel
InorderTraversalMovingRoot ==
  /\ pc = "idle"
  /\ result' = [op |-> "inorder_traversal", arg |-> << >>,
                value |-> inorder_traversal(variant, heap, root)]
  /\ root' = NIL_LEAF
  /\ UNCHANGED <<variant, driver, script, heap, pc, new_node, current,
                 parent, node, depth>>

InorderTraversal ==
  /\ pc = "idle"
  /\ result' = [op |-> "inorder_traversal", arg |-> << >>,
                value |-> inorder_traversal(variant, heap, root)]
  /\ UNCHANGED <<variant, driver, script, heap, root, pc, new_node, current,
                 parent, node, depth>>

Next ==
  \/ Insert
  \/ \E q \in NextQueries : OverlapSearch(q)
  \/ InorderTraversal

Spec == Init /\ [][Next]_vars

\* the steps inside a running insert.  The code is sequential and runs every
\* call to completion, so a call that can take its next step does take it.
InsertStep ==
  \/ InsertDescend
  \/ InsertLink
  \/ FixRedUncle
  \/ FixInnerRotate
  \/ FixOuterRotate
  \/ FixReturn
  \/ UpwardStep

\* ============================================================ properties
\* the nodes of the subtree rooted at x
RECURSIVE Subtree(_, _)
Subtree(h, x) ==
  IF x = NIL_LEAF THEN {}
  ELSE {x} \cup Subtree(h, h[x].left) \cup Subtree(h, h[x].right)

TreeNodes == Subtree(heap, root)

\* the node ids of the tree, in inorder
RECURSIVE InorderNodes(_, _)
InorderNodes(h, x) ==
  IF x = NIL_LEAF THEN << >>
  ELSE InorderNodes(h, h[x].left) \o <<x>> \o InorderNodes(h, h[x].right)

\* the numbers of BLACK real nodes on the paths from x down to a sentinel
RECURSIVE BlackCounts(_, _)
BlackCounts(h, x) ==
  IF x = NIL_LEAF THEN {0}
  ELSE LET b == IF h[x].color = "BLACK" THEN 1 ELSE 0
       IN  {c + b : c \in BlackCounts(h, h[x].left)
                          \cup BlackCounts(h, h[x].right)}

\* no insert call is running
Returned == pc = "idle"

\* the keys passed to insert so far, in call order
InsertedKeys == [i \in 1 .. n |-> heap[i].data]

\* C1: once insert has returned, the root is BLACK, no RED node has a RED
\* child, and all root-to-sentinel paths hold the same number of BLACK nodes
\* (every variant).
RedBlackProperty ==
  Returned =>
    /\ heap[root].color = "BLACK"
    /\ \A x \in TreeNodes :
         heap[x].color = "RED" =>
           /\ heap[heap[x].left].color = "BLACK"
           /\ heap[heap[x].right].color = "BLACK"
    /\ Cardinality(BlackCounts(heap, root)) = 1

\* a returned insert whose fixup rotated at the root and left RED nodes
RedBlackWitness ==
  /\ Returned
  /\ n >= 4
  /\ root # 1
  /\ \E x \in TreeNodes : heap[x].color = "RED"
  /\ \E x \in TreeNodes : x # root /\ heap[x].color = "BLACK"

\* C2: after any inserts (duplicates allowed) the inorder traversal from the
\* root visits the keys in non-decreasing order.
InorderNonDecreasing ==
  Returned =>
    LET out == inorder_traversal(variant, heap, root)
    IN  \A i \in 1 .. Len(out) - 1 : out[i][1] <= out[i + 1][1]

\* a traversal that printed a duplicate key of a tree of at least four nodes
InorderWitness ==
  /\ result.op = "inorder_traversal"
  /\ Len(result.value) >= 4
  /\ \E i \in 1 .. Len(result.value) - 1 :
       result.value[i][1] = result.value[i + 1][1]
  /\ \E i \in 1 .. Len(result.value) - 1 :
       result.value[i][1] < result.value[i + 1][1]

\* C3 as stated: after every insert, every key in a node's left subtree is
\* strictly less than the node's key and every key in its right subtree is
\* greater or equal (equal keys never in the left subtree).
StrictLeftOrdering ==
  Returned =>
    \A x \in TreeNodes :
      /\ \A y \in Subtree(heap, heap[x].left) : heap[y].data < heap[x].data
      /\ \A y \in Subtree(heap, heap[x].right) : heap[y].data >= heap[x].data

\* C3 amended: after every insert, every key in a node's left subtree is
\* less than or equal to the node's key and every key in its right subtree
\* is greater or equal; the left bound is strict as long as no key has been
\* inserted twice.
BstOrdering ==
  Returned =>
    \A x \in TreeNodes :
      /\ \A y \in Subtree(heap, heap[x].left) :
           /\ heap[y].data <= heap[x].data
           /\ (\A i, j \in 1 .. n : i # j => heap[i].data # heap[j].data)
                => heap[y].data < heap[x].data
      /\ \A y \in Subtree(heap, heap[x].right) : heap[y].data >= heap[x].data

\* a rotation has moved an equal key into a left subtree
BstOrderingWitness ==
  /\ Returned
  /\ \E x \in TreeNodes :
       \E y \in Subtree(heap, heap[x].left) : heap[y].data = heap[x].data

\* the true height of the subtree rooted at x (-1 when empty, 0 for a leaf)
RECURSIVE Height(_, _)
Height(h, x) ==
  IF x = NIL_LEAF THEN -1
  ELSE 1 + Max2(Height(h, h[x].left), Height(h, h[x].right))

\* the largest element of a non-empty set of numbers
MaxOf(S) == CHOOSE m \in S : \A y \in S : y <= m

\* C4: in the count tree, after every insert returns, every node's
\* subtree_count is 1 + the sizes of its two subtrees, and the root's
\* subtree_count is the number of insert calls made so far.
CountAugmentation ==
  (Returned /\ variant = "count") =>
    /\ \A x \in TreeNodes :
         heap[x].subtree_count =
           1 + Cardinality(Subtree(heap, heap[x].left))
             + Cardinality(Subtree(heap, heap[x].right))
    /\ heap[root].subtree_count = n

\* a count tree whose root came from a rotation and has an inner node below
CountWitness ==
  /\ Returned
  /\ variant = "count"
  /\ n >= 5
  /\ root # 1
  /\ \E x \in TreeNodes : x # root /\ heap[x].subtree_count >= 3

\* C5: in the height tree, after every insert returns, every node's
\* subtree_depth is 1 + the larger of the true heights of its subtrees (empty
\* subtree -1, leaf 0), and the sentinel's subtree_depth is -1.
HeightAugmentation ==
  (Returned /\ variant = "height") =>
    /\ \A x \in TreeNodes :
         heap[x].subtree_depth =
           1 + Max2(Height(heap, heap[x].left), Height(heap, heap[x].right))
    /\ heap[NIL_LEAF].subtree_depth = -1

\* a height tree of height 2 whose root came from a rotation and whose two
\* subtrees differ in height
HeightWitness ==
  /\ Returned
  /\ variant = "height"
  /\ root # 1
  /\ heap[root].subtree_depth = 2
  /\ heap[heap[root].left].subtree_depth # heap[heap[root].right].subtree_depth

\* C6: in the interval tree, after every insert returns, every node's
\* max_endpoint is the largest high endpoint stored in its subtree, so the
\* root's is the largest high endpoint ever inserted.
MaxEndpointAugmentation ==
  (Returned /\ variant = "interval") =>
    /\ \A x \in TreeNodes :
         heap[x].max_endpoint = MaxOf({heap[y].high : y \in Subtree(heap, x)})
    /\ root # NIL_LEAF =>
         heap[root].max_endpoint = MaxOf({heap[i].high : i \in 1 .. n})

\* an interval tree whose root came from a rotation and holds a max_endpoint
\* that is not its own high endpoint, over a child with a smaller one
MaxEndpointWitness ==
  /\ Returned
  /\ variant = "interval"
  /\ root # 1
  /\ heap[root].max_endpoint > heap[root].high
  /\ \E x \in TreeNodes :
       x # root /\ heap[x].max_endpoint < heap[root].max_endpoint

\* the intervals passed to insert so far
StoredIntervals == {<<heap[i].data, heap[i].high>> : i \in 1 .. n}

\* C7: overlap_search(q) returns None exactly when no stored interval i has
\* i.low <= q.high and q.low <= i.high; an interval it returns is stored and
\* overlaps q.  On the docstring's six intervals (14,16) finds an overlapping
\* interval and (41,42) finds none.
OverlapSearchCorrect ==
  result.op = "overlap_search" =>
    LET q == result.arg
        r == result.value
    IN  /\ r = << >> <=>
             ~ \E i \in StoredIntervals : i[1] <= q[2] /\ q[1] <= i[2]
        /\ r # << >> =>
             /\ r[1] \in StoredIntervals
             /\ r[1][1] <= q[2] /\ q[1] <= r[1][2]
        /\ (driver = "doc" /\ n = Len(intervals_doc)) =>
             /\ q = <<14, 16>> => r # << >>
             /\ q = <<41, 42>> => r = << >>

\* a search that passed a non-overlapping root and found its interval below
OverlapSearchWitness ==
  /\ result.op = "overlap_search"
  /\ n >= 3
  /\ result.value # << >>
  /\ result.value[1] # <<heap[root].data, heap[root].high>>

\* the ten keys 20, 15, 25, 10, 5, 1, 17, 22, 27, 8 have been inserted, in that
\* order, into an empty tree
ScenarioInserted ==
  Returned /\ InsertedKeys = <<20, 15, 25, 10, 5, 1, 17, 22, 27, 8>>

\* C8 as stated: inserting 20, 15, 25, 10, 5, 1, 17, 22, 27, 8 into an empty
\* tree leaves root.key = 15.
ScenarioRootIs15 == ScenarioInserted => heap[root].data = 15

\* C8 amended: inserting 20, 15, 25, 10, 5, 1, 17, 22, 27, 8 into an empty
\* tree leaves root.key = 20.
ScenarioRootIs20 == ScenarioInserted => heap[root].data = 20

\* the plain tree after the ten inserts of the scenario
ScenarioWitness == ScenarioInserted /\ variant = "plain"

\* C9 as stated: an interval whose high endpoint is below its low endpoint is
\* rejected by insert (no node is made for it, the tree stays as it was), so
\* once insert has returned no node of the tree holds such an interval.
InvalidIntervalRejected ==
  (Returned /\ variant = "interval") =>
    \A x \in TreeNodes : heap[x].data <= heap[x].high

\* the child that moves up in the rotation the next step of fix_insert
\* performs; None when the next step performs no rotation
PendingPivot ==
  CASE pc = "outer_l" -> heap[G(node)].left
    [] pc = "outer_r" -> heap[G(node)].right
    [] pc = "fix" /\ LoopCond /\ ~UncleIsRed ->
         IF ParentIsLeft
         THEN IF node = heap[P(node)].right THEN heap[P(node)].right
                                            ELSE heap[G(node)].left
         ELSE IF node = heap[P(node)].left THEN heap[P(node)].left
                                           ELSE heap[G(node)].right
    [] OTHER -> None

\* C10: in every state, also inside fix_insert and between its rotations, the
\* sentinel is as constructed: BLACK, parent None, its child links and its
\* augmentation (0 count, -1 height, -infinity max_endpoint) untouched; and
\* no rotation is performed whose pivot child is the sentinel.
SentinelNeverModified ==
  /\ heap[NIL_LEAF] = NilNode(variant)
  /\ heap[NIL_LEAF].color = "BLACK"
  /\ heap[NIL_LEAF].parent = None
  /\ variant = "count" => heap[NIL_LEAF].subtree_count = 0
  /\ variant = "height" => heap[NIL_LEAF].subtree_depth = -1
  /\ variant = "interval" => heap[NIL_LEAF].max_endpoint = NegInf
  /\ PendingPivot # NIL_LEAF

\* between the inner rotation and the outer one, after a rotate_left whose
\* pivot had the sentinel as its left child
SentinelWitness ==
  /\ pc = "outer_l"
  /\ heap[node].right = NIL_LEAF
  /\ PendingPivot \in 1 .. n

\* the number of parent links from x up to the root
RECURSIVE DepthOf(_, _)
DepthOf(h, x) ==
  IF h[x].parent = None THEN 0 ELSE 1 + DepthOf(h, h[x].parent)

\* a bound on the steps the running insert call still takes: the upward walk
\* has the ancestors of node left, the fixup loop climbs from node towards the
\* root (an inner rotation is followed by the outer one), and the descent has
\* the subtree under current left; 0 when no call is running
Rank ==
  CASE pc = "idle" -> 0
    [] pc = "walk" -> 1 + DepthOf(heap, node)
    [] pc \in {"outer_l", "outer_r"} -> (n + 2) + 2 * DepthOf(heap, node)
    [] pc = "fix" -> (n + 2) + 2 * DepthOf(heap, node) + 1
    [] pc = "descend" -> (3 * n + 4) + Height(heap, current) + 1

\* the guard of the step the running call takes next holds and every
\* reference that step follows is a node: the descent is at a node or at the
\* sentinel, the fixup loop and the upward walk are at a real node, and a
\* fixup iteration finds a real grandparent
InsertCanStep ==
  /\ pc = "descend" => current \in 0 .. n
  /\ pc \in {"fix", "outer_l", "outer_r", "walk"} => node \in 1 .. n
  /\ pc = "walk" => (node # NIL_LEAF /\ heap[node].parent \in {None} \cup 1 .. n)
  /\ pc \in {"outer_l", "outer_r"} => G(node) \in 1 .. n
  /\ (pc = "fix" /\ LoopCond) => (G(node) \in 1 .. n /\ Uncle \in 0 .. n)

\* C11: every insert call terminates: while a call is running its next step
\* can be taken, and each step (an iteration of the descent, linking the node,
\* an iteration or a rotation of the fixup loop, leaving the loop, an
\* iteration of the upward walk) lowers a natural number that is 0 only when
\* the call has returned.
InsertTerminates ==
  /\ [](Rank \in Nat /\ (Rank = 0 <=> pc = "idle"))
  /\ [](InsertCanStep)
  /\ [][InsertStep => Rank' < Rank]_vars

\* an insert that went through the descent, a fixup with a climb and a
\* rotation, and the upward walk up to the root
InsertTerminatesWitness ==
  /\ pc = "walk"
  /\ node = root
  /\ root # 1
  /\ new_node >= 8
  /\ new_node \notin {heap[root].left, heap[root].right}

\* C12: a step that is a read (overlap_search or inorder traversal, the only
\* steps from a returned state to a returned state) leaves the root reference
\* and every node, the sentinel included, as they were; and as long as no
\* insert has been called since, the sequence an inorder traversal yielded is
\* the sequence another traversal yields.
ReadsDoNotMutate ==
  /\ [][(pc = "idle" /\ pc' = "idle") =>
         (heap' = heap /\ root' = root /\ variant' = variant)]_vars
  /\ [](result.op = "inorder_traversal" =>
         result.value = inorder_traversal(variant, heap, root))

\* an inorder traversal of an interval tree of three or more nodes whose root
\* came from a rotation
ReadsWitness ==
  /\ result.op = "inorder_traversal"
  /\ variant = "interval"
  /\ n >= 3
  /\ root # 1
  /\ Len(result.value) = n

\* C13: after n >= 1 inserts the number of nodes on the longest path from the
\* root to a leaf is at most 2 * log2(n + 1), that is, 2 to that number is at
\* most (n + 1) squared; in the height-augmented tree that number is
\* root.subtree_depth + 1.
LogarithmicHeight ==
  (Returned /\ n >= 1) =>
    /\ 2 ^ (Height(heap, root) + 1) <= (n + 1) * (n + 1)
    /\ variant = "height" =>
         2 ^ (heap[root].subtree_depth + 1) <= (n + 1) * (n + 1)

\* a height-augmented tree of at least ten nodes whose longest path has five
\* nodes
LogarithmicHeightWitness ==
  /\ Returned
  /\ variant = "height"
  /\ n >= 10
  /\ heap[root].subtree_depth + 1 = 5

\* the next step of fix_insert performs a rotation
RotationPending == PendingPivot # None

\* the pending rotation is the first of the two (the one at node.parent)
RotationIsInner ==
  /\ pc = "fix"
  /\ IF ParentIsLeft THEN node = heap[P(node)].right
                      ELSE node = heap[P(node)].left

\* the node the pending rotation is called on
RotationNode == IF RotationIsInner THEN P(node) ELSE G(node)

\* the pending rotation is a rotate_left
RotationIsLeft ==
  CASE pc = "outer_l" -> FALSE
    [] pc = "outer_r" -> TRUE
    [] OTHER -> ParentIsLeft = RotationIsInner

\* the tree the pending rotation is called on: the outer rotation comes after
\* its two colour assignments
RotationInput ==
  IF RotationIsInner THEN heap
  ELSE [heap EXCEPT ![P(node)].color = "BLACK", ![G(node)].color = "RED"]

\* the tree and root the pending rotation leaves, in the variant v
RotationOutput(v) ==
  IF RotationIsLeft THEN rotate_left(v, RotationInput, root, RotationNode)
                    ELSE rotate_right(v, RotationInput, root, RotationNode)

\* the tree inside the pending rotation when its links are set and its two
\* update_* calls are still to come (the plain rotation is the relinking)
RotationRelinked == RotationOutput("plain").heap

\* x holds the augmentation value of its subtree in h
AugCorrect(v, h, x) ==
  IF x = NIL_LEAF THEN h[x] = NilNode(v)
  ELSE CASE v = "count" -> h[x].subtree_count = Cardinality(Subtree(h, x))
         [] v = "height" -> h[x].subtree_depth = Height(h, x)
         [] v = "interval" ->
              h[x].max_endpoint = MaxOf({h[y].high : y \in Subtree(h, x)})
         [] OTHER -> TRUE

\* what update_*(x) reads in h is correct
ChildrenCorrect(v, h, x) ==
  AugCorrect(v, h, h[x].left) /\ AugCorrect(v, h, h[x].right)

\* the two update_* calls of the pending rotation read correct children
RotationReadsCorrect ==
  LET h6 == RotationRelinked
      h7 == update_aug(variant, h6, RotationNode)
  IN  /\ ChildrenCorrect(variant, h6, RotationNode)
      /\ ChildrenCorrect(variant, h7, PendingPivot)

\* the fixup loop has not climbed: it is still at the inserted node
NotClimbed ==
  \/ pc = "fix" /\ node = new_node
  \/ pc \in {"outer_l", "outer_r"} /\ P(node) = new_node

Augmented == variant \in {"count", "height", "interval"}

\* C14 as stated: whenever a node's augmentation is recomputed, by a rotation
\* inside fixup or by the upward walk, both children of that node hold their
\* correct values for the current shape, also in rotations after a red-uncle
\* climb.
NoStaleChildRead ==
  Augmented =>
    /\ RotationPending => RotationReadsCorrect
    /\ pc = "walk" => ChildrenCorrect(variant, heap, node)

\* C14 amended: every recomputation of the upward walk reads two correct
\* children, and so does every recomputation of a rotation while the fixup
\* loop is still at the inserted node.  A rotation after a red-uncle climb can
\* read a stale child; during the whole call, every node that holds a wrong
\* value has the inserted node in its subtree, so the upward walk recomputes
\* it, and all values are correct when insert returns.
StaleOnlyAboveInserted ==
  Augmented =>
    /\ (RotationPending /\ NotClimbed) => RotationReadsCorrect
    /\ pc = "walk" => ChildrenCorrect(variant, heap, node)
    /\ pc \in {"fix", "outer_l", "outer_r", "walk"} =>
         \A y \in TreeNodes :
           ~AugCorrect(variant, heap, y) =>
             (y # new_node /\ new_node \in Subtree(heap, y))
    /\ pc \in {"idle", "descend"} =>
         \A y \in TreeNodes : AugCorrect(variant, heap, y)

\* a rotation about to run after a climb whose recomputation reads a stale
\* child
StaleReadWitness ==
  /\ variant = "count"
  /\ RotationPending
  /\ ~NotClimbed
  /\ ~RotationReadsCorrect

\* C15: each time the body of the fixup loop is entered (node is not the root
\* and node.parent is RED), node and its parent are both RED and that is the
\* only violation: the root is BLACK, all paths from the root to the sentinel
\* hold the same number of BLACK nodes, and no other RED node has a RED child.
\* So node.parent is not the root and node.parent.parent is a real node.
LoopEntryInvariant ==
  (pc = "fix" /\ LoopCond) =>
    /\ heap[node].color = "RED" /\ heap[P(node)].color = "RED"
    /\ heap[root].color = "BLACK"
    /\ Cardinality(BlackCounts(heap, root)) = 1
    /\ \A x \in TreeNodes :
         (x # root /\ heap[x].color = "RED" /\ heap[P(x)].color = "RED")
           => x = node
    /\ P(node) # root
    /\ G(node) # None
    /\ G(node) \in TreeNodes

\* the loop body entered again after a red-uncle climb
LoopEntryWitness ==
  /\ pc = "fix"
  /\ LoopCond
  /\ node # new_node
  /\ G(node) # root

\* C16: when the black-uncle branch is taken, the rotation at the parent (if
\* any) is followed at once by the recolouring and the rotation at the
\* grandparent, and after that rotation the loop condition is false, so the
\* next step leaves the loop: an insert performs at most one rotation at the
\* parent and one at the grandparent.
BlackUncleEndsLoop ==
  /\ [][FixInnerRotate => (pc' \in {"outer_l", "outer_r"})]_vars
  /\ [][(pc \in {"outer_l", "outer_r"}) => FixOuterRotate]_vars
  /\ [][FixOuterRotate => (pc' = "fix" /\ ~LoopCond')]_vars
  /\ [][(pc = "fix" /\ ~LoopCond) => (pc' \in {"walk", "idle"})]_vars

\* the loop test after both rotations: the inserted node has moved up over
\* node, its former parent
BlackUncleWitness ==
  /\ pc = "fix"
  /\ ~LoopCond
  /\ node # root
  /\ P(node) = new_node
  /\ n >= 8

\* the subtree that changes sides in the pending rotation: the pivot's left
\* child in a rotate_left, its right child in a rotate_right
RotationInnerGrandchild ==
  IF RotationIsLeft THEN RotationInput[PendingPivot].left
                    ELSE RotationInput[PendingPivot].right

\* the nodes whose links the pending rotation may set
RotationTouched ==
  ({RotationNode, PendingPivot, RotationInnerGrandchild,
    RotationInput[RotationNode].parent}) \ {None, NIL_LEAF}

\* the pending rotation keeps the inorder sequence and the set of nodes,
\* sets links of the touched nodes only, moves the root reference only when
\* the rotated node had no parent, and changes no colour and no payload
RotationFrame ==
  LET hin == RotationInput
      out == RotationOutput(variant)
  IN  /\ InorderNodes(out.heap, out.root) = InorderNodes(hin, root)
      /\ Subtree(out.heap, out.root) = Subtree(hin, root)
      /\ DOMAIN out.heap = DOMAIN hin
      /\ \A y \in DOMAIN hin :
           /\ out.heap[y].color = hin[y].color
           /\ out.heap[y].data = hin[y].data
           /\ out.heap[y].high = hin[y].high
           /\ y \notin RotationTouched =>
                /\ out.heap[y].left = hin[y].left
                /\ out.heap[y].right = hin[y].right
                /\ out.heap[y].parent = hin[y].parent
      /\ out.root = IF hin[RotationNode].parent = None THEN PendingPivot
                    ELSE root
      /\ out.heap[PendingPivot].parent = hin[RotationNode].parent
      /\ out.heap[RotationNode].parent = PendingPivot

\* C17: every rotate_left / rotate_right that fixup executes preserves the
\* inorder sequence of the whole tree and the set of nodes reachable from the
\* root; it sets only links of the rotated node, its pivot child, the pivot's
\* inner grandchild and the rotated node's former parent (the root reference
\* when there was none), and changes no colour.
RotationPreservesOrder ==
  /\ [](RotationPending => RotationFrame)
  /\ [][RotationPending =>
         (heap' = RotationOutput(variant).heap
            /\ root' = RotationOutput(variant).root)]_vars

\* a rotation about to run on a node that has a parent, with a pivot whose
\* inner subtree is not empty
RotationWitness ==
  /\ RotationPending
  /\ RotationInput[RotationNode].parent # None
  /\ RotationInnerGrandchild # NIL_LEAF
  /\ ~RotationIsLeft

\* the payload of node i
Payload(i) == <<heap[i].data, heap[i].high>>

\* a step keeps every payload; the first step of an insert call makes one
\* node, for the value passed, and no other step makes or drops a node
OneNodePerInsert ==
  /\ \A i \in 1 .. n : Payload(i)' = Payload(i)
  /\ IF pc = "idle" /\ pc' = "descend"
     THEN /\ n' = n + 1
          /\ new_node' = n + 1
          /\ <<heap'[n + 1].data, heap'[n + 1].high>> \in NextInputs
     ELSE n' = n

\* C18: each insert call makes exactly one node, no other step makes or drops
\* one, and no payload is ever overwritten; after every insert returns, all
\* the nodes made so far, duplicates included, are reachable from the root,
\* each at one place, so the payloads in the tree are the values passed to
\* insert with their multiplicities.
PayloadsPreserved ==
  /\ [](Returned =>
         /\ TreeNodes = 1 .. n
         /\ Len(InorderNodes(heap, root)) = n
         /\ driver # "free" =>
              \A i \in 1 .. n : Payload(i) = ScriptOf(variant, driver)[i])
  /\ [][OneNodePerInsert]_vars

\* a tree after a rotation that holds the same key in three nodes
PayloadsWitness ==
  /\ Returned
  /\ root # 1
  /\ \E i, j, k \in 1 .. n :
       /\ i < j /\ j < k
       /\ Payload(i) = Payload(j) /\ Payload(j) = Payload(k)

\* the node reached from x by following at most k parent links
RECURSIVE Climb(_, _, _)
Climb(h, x, k) ==
  IF k = 0 \/ h[x].parent = None THEN x ELSE Climb(h, h[x].parent, k - 1)

\* C19: after every insert returns, the root's parent is None, every
\* non-sentinel child's parent link points at the node it is a child of, and
\* following parent links from any node of the tree ends at the root.
ParentLinksConsistent ==
  Returned =>
    /\ root # NIL_LEAF => heap[root].parent = None
    /\ \A x \in TreeNodes :
         /\ heap[x].left # NIL_LEAF => heap[heap[x].left].parent = x
         /\ heap[x].right # NIL_LEAF => heap[heap[x].right].parent = x
         /\ Climb(heap, x, n) = root

\* a tree after rotations in which some node is three parent links below the
\* root
ParentLinksWitness ==
  /\ Returned
  /\ root # 1
  /\ n >= 8
  /\ \E x \in TreeNodes : Climb(heap, x, 2) # root /\ Climb(heap, x, 3) = root

\* C20 as stated: in the per-node depth tree, after every insert returns,
\* every node's depth field is the number of edges from the root to the node
\* (0 at the root), also for nodes in subtrees that rotations moved.
DepthFieldCorrect ==
  (Returned /\ variant = "depth") =>
    \A x \in TreeNodes : heap[x].depth = DepthOf(heap, x)

====
